---- MODULE Spec2Model ----
(***************************************************************************)
(* Model of brevitas/onnx/finn/function/act.py (the ONNX symbolic graphs   *)
(* of the quantized activation placeholders) and of                        *)
(* brevitas_examples/bnn_pynq/trainer.py (Trainer construction, the        *)
(* training loop and its checkpoint bookkeeping).                          *)
(***************************************************************************)
EXTENDS Integers, Sequences, FiniteSets, TLC

(***************************************************************************)
(* Bounds                                                                  *)
(***************************************************************************)
\* largest value of args.epochs
MaxEpochs == 3
\* largest len(train_loader)
MaxBatches == 2
\* accuracies range over 0..MaxAcc (an order-preserving abstraction of 0..100)
MaxAcc == 2
\* largest number of nodes already in the graph when symbolic is called
MaxPrior == 1

(***************************************************************************)
(* Part 1: act.py, the symbolic functions                                  *)
(***************************************************************************)
VARIABLES
  g,         \* the ONNX graph under construction: a sequence of nodes
  sym_args,  \* the arguments symbolic is called with (graph: g as it was)
  sym_fn,    \* which placeholder's symbolic has been applied ("none" before)
  sym_ret    \* the value symbolic returned

\* Python's None, as a value reference
None == [kind |-> "none", name |-> "None", idx |-> 0]
\* a tensor value coming from outside the function
Arg(n) == [kind |-> "arg", name |-> n, idx |-> 0]
\* the output of the k-th node of the graph
NodeOut(k) == [kind |-> "node", name |-> "", idx |-> k]

\* g.op(op, *inputs, **attrs): appends one node, returns its output
GOp(graph, op, inputs, attrs) ==
  [g   |-> Append(graph, [op |-> op, inputs |-> inputs, attrs |-> attrs]),
   ret |-> NodeOut(Len(graph) + 1)]

\* variant: Mul emitted before Add
HardTanhSymbolicSwapped(graph, input, qnt_type, thres, bias, scale) ==
  IF qnt_type = "BIPOLAR"
  THEN GOp(graph, "MultiThreshold", <<input, thres>>,
           {<<"domain_s", "finn">>, <<"out_dtype_s", qnt_type>>,
            <<"out_scale_f", "2.0">>, <<"out_bias_f", "-1.0">>})
  ELSE LET r1 == GOp(graph, "MultiThreshold", <<input, thres>>,
                     {<<"domain_s", "finn">>, <<"out_dtype_s", qnt_type>>})
           r2 == IF scale # None
                 THEN GOp(r1.g, "Mul", <<r1.ret, scale>>, {})
                 ELSE r1
           r3 == IF bias # None
                 THEN GOp(r2.g, "Add", <<r2.ret, bias>>, {})
                 ELSE r2
       IN r3

\* QuantHardTanhPlaceholderFunction.symbolic
HardTanhSymbolic(graph, input, qnt_type, thres, bias, scale) ==
  IF qnt_type = "BIPOLAR"
  THEN GOp(graph, "MultiThreshold", <<input, thres>>,
           {<<"domain_s", "finn">>, <<"out_dtype_s", qnt_type>>,
            <<"out_scale_f", "2.0">>, <<"out_bias_f", "-1.0">>})
  ELSE LET r1 == GOp(graph, "MultiThreshold", <<input, thres>>,
                     {<<"domain_s", "finn">>, <<"out_dtype_s", qnt_type>>})
           r2 == IF bias # None
                 THEN GOp(r1.g, "Add", <<r1.ret, bias>>, {})
                 ELSE r1
           r3 == IF scale # None
                 THEN GOp(r2.g, "Mul", <<r2.ret, scale>>, {})
                 ELSE r2
       IN r3

\* variant: the bias is added, as in the hard-tanh placeholder
ReLUSymbolicWithAdd(graph, input, qnt_type, thres, bias, scale) ==
  LET r1 == GOp(graph, "MultiThreshold", <<input, thres>>,
                {<<"domain_s", "finn">>, <<"out_dtype_s", qnt_type>>})
      r2 == IF bias # None
            THEN GOp(r1.g, "Add", <<r1.ret, bias>>, {})
            ELSE r1
      r3 == IF scale # None
            THEN GOp(r2.g, "Mul", <<r2.ret, scale>>, {})
            ELSE r2
  IN r3

\* QuantReLUPlaceholderFunction.symbolic
ReLUSymbolic(graph, input, qnt_type, thres, bias, scale) ==
  LET r1 == GOp(graph, "MultiThreshold", <<input, thres>>,
                {<<"domain_s", "finn">>, <<"out_dtype_s", qnt_type>>})
      r2 == IF scale # None
            THEN GOp(r1.g, "Mul", <<r1.ret, scale>>, {})
            ELSE r1
  IN r2

QntTypes == {"BIPOLAR", "INT2", "INT4", "UINT8"}
BiasValues == {None, Arg("bias_a"), Arg("bias_b")}
ScaleValues == {None, Arg("scale_a"), Arg("scale_b")}

\* a node some earlier layer already put in the graph
PriorNode == [op |-> "Conv", inputs |-> <<Arg("x"), Arg("w")>>, attrs |-> {}]
PriorGraph(n) == [k \in 1..n |-> PriorNode]

symvars == <<g, sym_args, sym_fn, sym_ret>>

SymInit ==
  /\ \E n \in 0..MaxPrior : g = PriorGraph(n)
  /\ \E q \in QntTypes, b \in BiasValues, s \in ScaleValues :
       sym_args = [graph |-> g,
                   input |-> IF Len(g) = 0 THEN Arg("x") ELSE NodeOut(Len(g)),
                   qnt_type |-> q, thres |-> Arg("thres"),
                   bias |-> b, scale |-> s]
  /\ sym_fn = "none"
  /\ sym_ret = None

ApplyHardTanh ==
  /\ sym_fn = "none"
  /\ LET r == HardTanhSymbolic(g, sym_args.input, sym_args.qnt_type,
                               sym_args.thres, sym_args.bias, sym_args.scale)
     IN /\ g' = r.g
        /\ sym_ret' = r.ret
  /\ sym_fn' = "QuantHardTanh"
  /\ UNCHANGED sym_args

ApplyReLU ==
  /\ sym_fn = "none"
  /\ LET r == ReLUSymbolic(g, sym_args.input, sym_args.qnt_type,
                           sym_args.thres, sym_args.bias, sym_args.scale)
     IN /\ g' = r.g
        /\ sym_ret' = r.ret
  /\ sym_fn' = "QuantReLU"
  /\ UNCHANGED sym_args


(***************************************************************************)
(* Part 2: trainer.py, Trainer.__init__                                    *)
(***************************************************************************)
VARIABLES
  args,      \* the parsed command line
  cfg,       \* the configuration model_with_cfg finds for args.network
  package,   \* the contents of the checkpoint file at args.resume
  nbatches,  \* len(self.train_loader)
  pc,        \* position of the program
  exc,       \* the exception that ended the constructor, NoExc if none
  self,      \* the attributes of the Trainer object
  dirs,      \* the directories created with os.mkdir
  built,     \* what the constructor has built so far, in order
  epoch,     \* loop variable of train_model
  i,         \* number of training batches done in the current epoch
  top1avg,   \* result of the last eval_model
  log,       \* steps train_model has taken, in order
  writes,    \* files written by torch.save and FINNManager.export_onnx, in order
  retval,    \* what train_model returned
  evals,     \* history: the results of eval_model so far, in order
  best0      \* history: self.best_val_acc when train_model was called

\* A file name is a sequence of string pieces (concatenation is \o); a path
\* is a sequence of file names; the empty path is '' (and stands for None).
NoPath == <<>>
\* os.path.join(path, name)
Join(path, name) == Append(path, name)
\* os.path.split(path)[0]
SplitHead(path) == IF Len(path) = 0 THEN path ELSE SubSeq(path, 1, Len(path) - 1)

\* value of an attribute that has not been assigned
Unset == -1
UnsetPath == << <<"<unset>">> >>

NoExc == [type |-> "none", msg |-> <<>>]
Raise(type, msg) == [type |-> type, msg |-> msg]

\* datetime.now().strftime('%Y%m%d_%H%M%S')
Timestamp == "20200101_000000"

\* names bound in the module namespace of trainer.py (imports, def, class)
ModuleGlobals ==
  {"random", "os", "time", "datetime", "torch", "optim", "nn", "MultiStepLR",
   "DataLoader", "transforms", "MNIST", "CIFAR10", "CIFAR100",
   "Logger", "TrainingEpochMeters", "EvalEpochMeters", "model_with_cfg",
   "SqrHingeLoss", "FINNManager", "accuracy", "Trainer"}

\* the architectures of the model table the except branch indexes
SupportedArchs == {"CNV", "FC"}

\* str.upper on the architecture names used here
Upper(str) ==
  CASE str = "cnv" -> "CNV"
    [] str = "fc" -> "FC"
    [] str = "vgg" -> "VGG"
    [] OTHER -> str

\* name.split("_")[0]: the pieces before the first "_"
RECURSIVE SplitFirst(_)
SplitFirst(name) ==
  IF name = <<>> \/ Head(name) = "_" THEN <<>>
  ELSE <<Head(name)>> \o SplitFirst(Tail(name))

NewSelf ==
  [output_dir_path |-> UnsetPath, checkpoints_dir_path |-> UnsetPath,
   num_classes |-> Unset, in_channels |-> Unset,
   starting_epoch |-> Unset, best_val_acc |-> Unset,
   model |-> [origin |-> "unset", arch |-> "", num_classes |-> Unset,
              weight_bit_width |-> Unset, act_bit_width |-> Unset,
              in_bit_width |-> Unset, weights |-> "unset"],
   optimizer |-> [state |-> "unset", lr_halvings |-> 0],
   scheduler |-> [kind |-> "unset", last_epoch |-> Unset]]

\* lines 62-76: output directory, checkpoints directory, logger
InitDirs(a, s) ==
  LET experiment_name == <<a.dataset, "_">> \o a.network \o <<"_", Timestamp>>
      out0 == Join(a.experiments, experiment_name)
      out == IF a.resume # NoPath THEN SplitHead(SplitHead(a.resume)) ELSE out0
      ckpt == Join(out, <<"checkpoints">>)
  IN [s EXCEPT
        !.self.output_dir_path = out,
        !.self.checkpoints_dir_path = IF ~a.dry_run THEN ckpt ELSE @,
        !.dirs = IF ~a.dry_run /\ a.resume = NoPath THEN @ \cup {out, ckpt} ELSE @,
        !.built = Append(@, "logger")]

\* variant: an unknown dataset is not rejected
InitDatasetNoRaise(a, s) ==
  IF s.exc # NoExc THEN s
  ELSE IF a.dataset = "CIFAR10"
  THEN [s EXCEPT !.self.num_classes = 10, !.self.in_channels = 3]
  ELSE IF a.dataset = "CIFAR100"
  THEN [s EXCEPT !.self.num_classes = 100, !.self.in_channels = 3]
  ELSE [s EXCEPT !.self.num_classes = 10, !.self.in_channels = 1]

\* lines 78-104: the requested dataset
InitDataset(a, s) ==
  IF s.exc # NoExc THEN s
  ELSE IF a.dataset = "CIFAR10"
  THEN [s EXCEPT !.self.num_classes = 10, !.self.in_channels = 3]
  ELSE IF a.dataset = "CIFAR100"
  THEN [s EXCEPT !.self.num_classes = 100, !.self.in_channels = 3]
  ELSE IF a.dataset = "MNIST"
  THEN [s EXCEPT !.self.num_classes = 10, !.self.in_channels = 1]
  ELSE [s EXCEPT !.exc = Raise("Exception", <<"Dataset not supported: ", a.dataset>>)]

\* lines 117-139: the except AssertionError branch
InitFreshModel(a, s) ==
  LET arch == Upper(SplitFirst(a.network)[1])
      in_bit_width == IF arch = "CNV" THEN 8 ELSE 1
  IN IF "model_impl_no_wrapper" \notin ModuleGlobals
     THEN [s EXCEPT !.exc = Raise("NameError", <<"model_impl_no_wrapper">>),
                    !.built = Append(@, "warning")]
     ELSE IF arch \notin SupportedArchs
     THEN [s EXCEPT !.exc = Raise("Exception", <<"Model not supported: ", arch>>),
                    !.built = Append(@, "warning")]
     ELSE [s EXCEPT !.self.model = [origin |-> "fresh", arch |-> arch,
                                    num_classes |-> s.self.num_classes,
                                    weight_bit_width |-> a.weight_bit_width,
                                    act_bit_width |-> a.act_bit_width,
                                    in_bit_width |-> in_bit_width,
                                    weights |-> "init"],
                    !.built = @ \o <<"warning", "model">>]

\* lines 106-139: the model
InitModel(a, c, s) ==
  IF s.exc # NoExc THEN s
  ELSE IF a.dataset = c.DATASET /\ s.self.num_classes = c.NUM_CLASSES
  THEN [s EXCEPT !.self.model = [origin |-> "model_with_cfg", arch |-> c.ARCH,
                                 num_classes |-> c.NUM_CLASSES,
                                 weight_bit_width |-> c.WEIGHT_BIT_WIDTH,
                                 act_bit_width |-> c.ACT_BIT_WIDTH,
                                 in_bit_width |-> c.IN_BIT_WIDTH,
                                 weights |-> IF a.pretrained THEN "pretrained" ELSE "init"],
                !.built = Append(@, "model")]
  ELSE InitFreshModel(a, s)

\* lines 146-167: data loaders and starting values
InitLoaders(a, s) ==
  IF s.exc # NoExc THEN s
  ELSE [s EXCEPT !.built = Append(@, "loaders"),
                 !.self.starting_epoch = 1,
                 !.self.best_val_acc = 0]

\* lines 178-207: the checkpoint's weights, then the optimizer
InitOptimizer(a, p, s) ==
  IF s.exc # NoExc THEN s
  ELSE [s EXCEPT !.self.model.weights = IF a.resume # NoPath THEN p.state_dict ELSE @,
                 !.self.optimizer = [state |-> "fresh", lr_halvings |-> 0],
                 !.built = Append(@, "optimizer")]

\* lines 209-217: the checkpoint's optimizer state, epoch and best accuracy
InitResume(a, p, s) ==
  IF s.exc # NoExc THEN s
  ELSE IF a.resume # NoPath /\ ~a.evaluate
  THEN [s EXCEPT
          !.self.optimizer.state = IF "optim_dict" \in DOMAIN p THEN p.optim_dict ELSE @,
          !.self.starting_epoch = IF "epoch" \in DOMAIN p THEN p.epoch ELSE @,
          !.self.best_val_acc = IF "best_val_acc" \in DOMAIN p THEN p.best_val_acc ELSE @]
  ELSE s

\* lines 219-228: the learning-rate scheduler
InitScheduler(a, s) ==
  IF s.exc # NoExc THEN s
  ELSE IF a.scheduler = "STEP"
  THEN [s EXCEPT !.self.scheduler = [kind |-> "MultiStepLR", last_epoch |-> 0],
                 !.built = Append(@, "scheduler")]
  ELSE IF a.scheduler = "FIXED"
  THEN [s EXCEPT !.self.scheduler = [kind |-> "None", last_epoch |-> Unset]]
  ELSE [s EXCEPT !.exc = Raise("Exception", <<"Unrecognized scheduler ", a.scheduler>>)]

\* lines 230-232: the scheduler's position
InitResumeScheduler(a, p, s) ==
  IF s.exc # NoExc THEN s
  ELSE IF a.resume # NoPath /\ ~a.evaluate /\ s.self.scheduler.kind # "None"
  THEN IF "epoch" \in DOMAIN p
       THEN [s EXCEPT !.self.scheduler.last_epoch = p.epoch - 1]
       ELSE [s EXCEPT !.exc = Raise("KeyError", <<"epoch">>)]
  ELSE s

\* Trainer.__init__
TrainerInit(a, c, p) ==
  LET s0 == [self |-> NewSelf, dirs |-> {}, built |-> <<>>, exc |-> NoExc]
  IN InitResumeScheduler(a, p,
       InitScheduler(a,
         InitResume(a, p,
           InitOptimizer(a, p,
             InitLoaders(a,
               InitModel(a, c,
                 InitDataset(a,
                   InitDirs(a, s0))))))))


(***************************************************************************)
(* Part 3: trainer.py, checkpoint_best and train_model                     *)
(***************************************************************************)
\* Trainer.quant_export: the file FINNManager.export_onnx writes
QuantExport(slf, output_dir_path, model_name, in_channels) ==
  [op |-> "export_onnx",
   path |-> Join(output_dir_path, model_name \o <<".onnx">>),
   epoch |-> Unset, best_val_acc |-> Unset, in_channels |-> in_channels]

\* Trainer.checkpoint_best: the files it writes, in order
CheckpointBest(slf, ep, name) ==
  << [op |-> "torch.save",
      path |-> Join(slf.checkpoints_dir_path, name),
      epoch |-> ep + 1, best_val_acc |-> slf.best_val_acc, in_channels |-> Unset],
     QuantExport(slf, slf.checkpoints_dir_path, name, slf.in_channels) >>

\* variant: a tie does not count as best
CheckpointStepStrict(a, slf, ep, acc) ==
  IF acc > slf.best_val_acc /\ ~a.dry_run
  THEN LET slf1 == [slf EXCEPT !.best_val_acc = acc]
       IN [self |-> slf1, writes |-> CheckpointBest(slf1, ep, <<"best.tar">>)]
  ELSE IF ~a.dry_run
  THEN [self |-> slf, writes |-> CheckpointBest(slf, ep, <<"checkpoint.tar">>)]
  ELSE [self |-> slf, writes |-> <<>>]

\* variant: every epoch's result is taken as the best
CheckpointStepAlwaysBest(a, slf, ep, acc) ==
  IF ~a.dry_run
  THEN LET slf1 == [slf EXCEPT !.best_val_acc = acc]
       IN [self |-> slf1, writes |-> CheckpointBest(slf1, ep, <<"best.tar">>)]
  ELSE [self |-> slf, writes |-> <<>>]

\* variant: the best accuracy is tracked in a dry run too
CheckpointStepTracksDryRun(a, slf, ep, acc) ==
  IF acc >= slf.best_val_acc
  THEN LET slf1 == [slf EXCEPT !.best_val_acc = acc]
       IN [self |-> slf1,
           writes |-> IF ~a.dry_run THEN CheckpointBest(slf1, ep, <<"best.tar">>) ELSE <<>>]
  ELSE IF ~a.dry_run
  THEN [self |-> slf, writes |-> CheckpointBest(slf, ep, <<"checkpoint.tar">>)]
  ELSE [self |-> slf, writes |-> <<>>]

\* lines 332-337: the checkpoint step of one epoch
CheckpointStep(a, slf, ep, acc) ==
  IF acc >= slf.best_val_acc /\ ~a.dry_run
  THEN LET slf1 == [slf EXCEPT !.best_val_acc = acc]
       IN [self |-> slf1, writes |-> CheckpointBest(slf1, ep, <<"best.tar">>)]
  ELSE IF ~a.dry_run
  THEN [self |-> slf, writes |-> CheckpointBest(slf, ep, <<"checkpoint.tar">>)]
  ELSE [self |-> slf, writes |-> <<>>]

\* lines 320-326: the learning-rate update of one epoch
SetLearningRate(slf, ep) ==
  IF slf.scheduler.kind # "None"
  THEN [slf EXCEPT !.scheduler.last_epoch = ep]
  ELSE IF ep % 40 = 0
  THEN [slf EXCEPT !.optimizer.lr_halvings = @ + 1]
  ELSE slf

\* lines 339-341: the value train_model returns
ReturnValue(a, slf) ==
  IF ~a.dry_run THEN Join(slf.checkpoints_dir_path, <<"best.tar">>) ELSE NoPath

Event(step, ep) == [step |-> step, epoch |-> ep]

inputs == <<args, cfg, package, nbatches>>
objvars == <<self, dirs, built, exc>>
loopvars == <<epoch, i, top1avg, log, writes, retval, evals, best0>>
trainervars == <<inputs, pc, objvars, loopvars>>
vars == <<symvars, trainervars>>

\* trainer = Trainer(args)
Construct ==
  /\ pc = "new"
  /\ LET r == TrainerInit(args, cfg, package)
     IN /\ self' = r.self
        /\ dirs' = r.dirs
        /\ built' = r.built
        /\ exc' = r.exc
        /\ pc' = IF r.exc = NoExc THEN "constructed" ELSE "raised"
  /\ UNCHANGED <<inputs, loopvars, symvars>>

\* trainer.train_model() is called
CallTrainModel ==
  /\ pc = "constructed"
  /\ epoch' = self.starting_epoch
  /\ best0' = self.best_val_acc
  /\ pc' = "for"
  /\ UNCHANGED <<inputs, objvars, i, top1avg, log, writes, retval, evals, symvars>>

\* variant: the range includes args.epochs
ForEpochInclusive ==
  /\ pc = "for"
  /\ IF epoch <= args.epochs
     THEN pc' = "batches" /\ i' = 0
     ELSE pc' = "return" /\ i' = i
  /\ UNCHANGED <<inputs, objvars, epoch, top1avg, log, writes, retval, evals, best0, symvars>>

\* line 265: for epoch in range(self.starting_epoch, self.args.epochs)
ForEpoch ==
  /\ pc = "for"
  /\ IF epoch < args.epochs
     THEN pc' = "batches" /\ i' = 0
     ELSE pc' = "return" /\ i' = i
  /\ UNCHANGED <<inputs, objvars, epoch, top1avg, log, writes, retval, evals, best0, symvars>>

\* lines 276-318: one training batch
TrainBatch ==
  /\ pc = "batches"
  /\ i < nbatches
  /\ i' = i + 1
  /\ self' = [self EXCEPT !.model.weights = "trained", !.optimizer.state = "stepped"]
  /\ log' = Append(log, Event("batch", epoch))
  /\ UNCHANGED <<inputs, pc, dirs, built, exc, epoch, top1avg, writes, retval, evals, best0, symvars>>

\* lines 320-326: after the last batch, set the learning rate
SetLR ==
  /\ pc = "batches"
  /\ i = nbatches
  /\ self' = SetLearningRate(self, epoch)
  /\ log' = Append(log, Event("lr", epoch))
  /\ pc' = "eval"
  /\ UNCHANGED <<inputs, dirs, built, exc, epoch, i, top1avg, writes, retval, evals, best0, symvars>>

\* lines 328-330: top1avg = self.eval_model(epoch)
Eval ==
  /\ pc = "eval"
  /\ \E acc \in 0..MaxAcc : top1avg' = acc /\ evals' = Append(evals, acc)
  /\ log' = Append(log, Event("eval", epoch))
  /\ pc' = "checkpoint"
  /\ UNCHANGED <<inputs, objvars, epoch, i, writes, retval, best0, symvars>>

\* lines 332-337: the checkpoint step, which ends the epoch
Checkpoint ==
  /\ pc = "checkpoint"
  /\ LET r == CheckpointStep(args, self, epoch, top1avg)
     IN /\ self' = r.self
        /\ writes' = writes \o r.writes
  /\ log' = Append(log, Event("checkpoint", epoch))
  /\ epoch' = epoch + 1
  /\ pc' = "for"
  /\ UNCHANGED <<inputs, dirs, built, exc, i, top1avg, retval, evals, best0, symvars>>

\* lines 339-341: training ends
Return ==
  /\ pc = "return"
  /\ retval' = ReturnValue(args, self)
  /\ pc' = "done"
  /\ UNCHANGED <<inputs, objvars, epoch, i, top1avg, log, writes, evals, best0, symvars>>

(***************************************************************************)
(* Inputs                                                                  *)
(***************************************************************************)
Datasets == {"CIFAR10", "CIFAR100", "MNIST", "SVHN"}
Networks == {<<"cnv", "_", "1W1A">>, <<"vgg", "_", "2W2A">>}
Schedulers == {"STEP", "FIXED", "COSINE"}
ResumePath == << <<"experiments">>, <<"run">>, <<"checkpoints">>, <<"best.tar">> >>
\* the keys a checkpoint may lack; 'state_dict' is always there
OptionalKeys == {"optim_dict", "epoch", "best_val_acc"}
FullPackage ==
  [state_dict |-> "checkpoint", optim_dict |-> "checkpoint", epoch |-> 2, best_val_acc |-> 1]
Restrict(f, keys) == [k \in keys |-> f[k]]
Packages == {Restrict(FullPackage, {"state_dict"} \cup ks) : ks \in SUBSET OptionalKeys}
Configs ==
  [DATASET : {"CIFAR10", "MNIST"}, NUM_CLASSES : {10, 100}, ARCH : {"CNV"},
   WEIGHT_BIT_WIDTH : {1}, ACT_BIT_WIDTH : {1}, IN_BIT_WIDTH : {8}]
Args ==
  [dataset : Datasets, network : Networks, experiments : {<< <<"experiments">> >>},
   resume : {NoPath, ResumePath}, dry_run : BOOLEAN, evaluate : BOOLEAN,
   pretrained : {FALSE}, scheduler : Schedulers, epochs : 0..MaxEpochs,
   weight_bit_width : {1}, act_bit_width : {1}]

TrainerStart ==
  /\ args \in Args
  /\ cfg \in Configs
  /\ package \in IF args.resume = NoPath THEN {Restrict(FullPackage, {"state_dict"})} ELSE Packages
  /\ nbatches \in 1..MaxBatches
  /\ pc = "new"
  /\ exc = NoExc
  /\ self = NewSelf
  /\ dirs = {}
  /\ built = <<>>
  /\ epoch = Unset
  /\ i = 0
  /\ top1avg = Unset
  /\ log = <<>>
  /\ writes = <<>>
  /\ retval = UnsetPath
  /\ evals = <<>>
  /\ best0 = Unset

\* the trainer is not used while the symbolic functions are examined
TrainerParked ==
  /\ args = [dataset |-> "MNIST", network |-> <<"cnv", "_", "1W1A">>,
             experiments |-> << <<"experiments">> >>, resume |-> NoPath,
             dry_run |-> TRUE, evaluate |-> FALSE, pretrained |-> FALSE,
             scheduler |-> "FIXED", epochs |-> 0,
             weight_bit_width |-> 1, act_bit_width |-> 1]
  /\ cfg = CHOOSE c \in Configs : c.DATASET = "MNIST" /\ c.NUM_CLASSES = 10
  /\ package = Restrict(FullPackage, {"state_dict"})
  /\ nbatches = 1
  /\ pc = "parked"
  /\ exc = NoExc
  /\ self = NewSelf
  /\ dirs = {}
  /\ built = <<>>
  /\ epoch = Unset
  /\ i = 0
  /\ top1avg = Unset
  /\ log = <<>>
  /\ writes = <<>>
  /\ retval = UnsetPath
  /\ evals = <<>>
  /\ best0 = Unset

\* no graph is exported while the trainer is examined
SymParked ==
  /\ g = <<>>
  /\ sym_args = [graph |-> <<>>, input |-> Arg("x"), qnt_type |-> "BIPOLAR", thres |-> Arg("thres"),
                 bias |-> None, scale |-> None]
  /\ sym_fn = "parked"
  /\ sym_ret = None

Init == TrainerStart /\ SymParked

Next ==
  \/ Construct
  \/ CallTrainModel
  \/ ForEpoch
  \/ TrainBatch
  \/ SetLR
  \/ Eval
  \/ Checkpoint
  \/ Return

Spec == Init /\ [][Next]_vars

\* the program keeps running until it returns or raises
FairSpec == Spec /\ WF_vars(Next)

SymStart == SymInit /\ TrainerParked

SymNext ==
  \/ ApplyHardTanh /\ UNCHANGED trainervars
  \/ ApplyReLU /\ UNCHANGED trainervars

SymSpec == SymStart /\ [][SymNext]_vars


(***************************************************************************)
(* Properties                                                              *)
(***************************************************************************)
Training == {"for", "batches", "eval", "checkpoint", "return", "done"}
Constructed == {"constructed"} \cup Training
AfterInit == {"raised"} \cup Constructed

Max(S) == CHOOSE x \in S : \A y \in S : y <= x
Range(f) == {f[k] : k \in DOMAIN f}
IsPrefix(p, q) == Len(p) <= Len(q) /\ SubSeq(q, 1, Len(p)) = p
Ops(nodes) == [k \in DOMAIN nodes |-> nodes[k].op]
AttrKeys(node) == {kv[1] : kv \in node.attrs}
Opt(x, op) == IF x # None THEN <<op>> ELSE <<>>
Saves == SelectSeq(writes, LAMBDA w : w.op = "torch.save")

\* the nodes symbolic appended to the graph it was given
Emitted == SubSeq(g, Len(sym_args.graph) + 1, Len(g))

\* C1: with dry_run false, the checkpoint step of every epoch writes exactly
\* one checkpoint: 'best.tar' when top1avg >= best_val_acc (best_val_acc
\* being set to top1avg first), else 'checkpoint.tar' with best_val_acc
\* unchanged; the write stores epoch+1 and the current best_val_acc and is
\* followed by an ONNX export under the same name in the checkpoints directory.
C1_OneCheckpointPerEpoch ==
  [][(pc = "checkpoint" /\ ~args.dry_run) =>
       LET new == SubSeq(writes', Len(writes) + 1, Len(writes'))
           isBest == top1avg >= self.best_val_acc
           name == IF isBest THEN <<"best.tar">> ELSE <<"checkpoint.tar">>
           ckdir == Append(self.output_dir_path, <<"checkpoints">>)
       IN /\ IsPrefix(writes, writes')
          /\ Ops(new) = <<"torch.save", "export_onnx">>
          /\ self'.best_val_acc = (IF isBest THEN top1avg ELSE self.best_val_acc)
          /\ new[1].path = Append(ckdir, name)
          /\ new[1].epoch = epoch + 1
          /\ new[1].best_val_acc = self'.best_val_acc
          /\ new[2].path = Append(ckdir, name \o <<".onnx">>)]_vars

\* a run in which a tie was written as 'best.tar' and a worse epoch as 'checkpoint.tar'
C1_Witness ==
  /\ pc = "done" /\ ~args.dry_run
  /\ Len(evals) >= 2 /\ evals[1] = best0 /\ evals[2] < evals[1]
  /\ Saves[1].path[Len(Saves[1].path)] = <<"best.tar">>
  /\ Saves[2].path[Len(Saves[2].path)] = <<"checkpoint.tar">>

\* C2: QuantHardTanh's symbolic emits for BIPOLAR exactly one finn
\* MultiThreshold on (input, thres) with out_scale 2.0 and out_bias -1.0 and
\* nothing else; otherwise a MultiThreshold without out_scale/out_bias, then
\* an Add with bias iff bias is not None, then a Mul with scale iff scale is
\* not None; it returns the last node emitted.
C2_HardTanhGraph ==
  sym_fn = "QuantHardTanh" =>
    LET a == sym_args
        e == Emitted
        base == Len(a.graph)
    IN /\ IsPrefix(a.graph, g)
       /\ Len(e) >= 1
       /\ e[1].inputs = <<a.input, a.thres>>
       /\ {<<"domain_s", "finn">>, <<"out_dtype_s", a.qnt_type>>} \subseteq e[1].attrs
       /\ IF a.qnt_type = "BIPOLAR"
          THEN /\ Ops(e) = <<"MultiThreshold">>
               /\ e[1].attrs = {<<"domain_s", "finn">>, <<"out_dtype_s", "BIPOLAR">>,
                                <<"out_scale_f", "2.0">>, <<"out_bias_f", "-1.0">>}
          ELSE /\ Ops(e) = <<"MultiThreshold">> \o Opt(a.bias, "Add") \o Opt(a.scale, "Mul")
               /\ AttrKeys(e[1]) = {"domain_s", "out_dtype_s"}
               /\ \A k \in 2..Len(e) :
                    e[k].inputs = <<NodeOut(base + k - 1),
                                    IF e[k].op = "Add" THEN a.bias ELSE a.scale>>
       /\ sym_ret = NodeOut(Len(g))

\* a non-bipolar call with both a bias and a scale
C2_Witness ==
  /\ sym_fn = "QuantHardTanh"
  /\ sym_args.qnt_type # "BIPOLAR" /\ sym_args.bias # None /\ sym_args.scale # None
  /\ Len(sym_args.graph) > 0

\* C3: QuantReLU's symbolic emits for every qnt_type a finn MultiThreshold on
\* (input, thres) with out_dtype qnt_type, then a Mul with scale iff scale is
\* not None; never an Add, so the graph does not depend on bias.
C3_ReLUGraph ==
  sym_fn = "QuantReLU" =>
    LET a == sym_args
        e == Emitted
        base == Len(a.graph)
    IN /\ IsPrefix(a.graph, g)
       /\ Ops(e) = <<"MultiThreshold">> \o Opt(a.scale, "Mul")
       /\ e[1].inputs = <<a.input, a.thres>>
       /\ e[1].attrs = {<<"domain_s", "finn">>, <<"out_dtype_s", a.qnt_type>>}
       /\ \A k \in 2..Len(e) : e[k].inputs = <<NodeOut(base + k - 1), a.scale>>
       /\ \A k \in 1..Len(e) : e[k].op # "Add" /\ a.bias \notin (Range(e[k].inputs) \ {None})
       /\ sym_ret = NodeOut(Len(g))

\* a bipolar call with both a bias and a scale
C3_Witness ==
  /\ sym_fn = "QuantReLU"
  /\ sym_args.qnt_type = "BIPOLAR" /\ sym_args.bias # None /\ sym_args.scale # None

\* C4: with dry_run set nothing is written: no directory is created, no
\* checkpoint and no ONNX export is written, best_val_acc keeps the value it
\* had when train_model was called, and train_model returns None.
C4_DryRunWritesNothing ==
  args.dry_run =>
    /\ dirs = {}
    /\ writes = <<>>
    /\ pc \in Training => self.best_val_acc = best0
    /\ pc = "done" => retval = NoPath

\* a finished dry run of two epochs, one of which beat best_val_acc
C4_Witness ==
  /\ args.dry_run /\ pc = "done"
  /\ Len(evals) >= 2
  /\ \E k \in 1..Len(evals) : evals[k] > best0

\* the conditions under which the constructor raises one of its own exceptions
DatasetSupported == args.dataset \in {"CIFAR10", "CIFAR100", "MNIST"}
ConfigMatches == args.dataset = cfg.DATASET /\ self.num_classes = cfg.NUM_CLASSES
SchedulerKnown == args.scheduler \in {"STEP", "FIXED"}
Has(key) == key \in DOMAIN package

\* C5: a Trainer constructed with resume and without evaluate takes optimizer
\* state, starting_epoch and best_val_acc from the checkpoint when the key is
\* there and keeps the defaults otherwise, and a STEP scheduler's last_epoch
\* is the stored epoch minus 1; with evaluate only the weights are loaded.
\* In both cases the output directory is the grandparent of the resume path
\* and no directory is created.
C5_Resume ==
  (/\ pc \in {"constructed", "raised"}
   /\ args.resume # NoPath
   /\ DatasetSupported /\ ConfigMatches /\ SchedulerKnown) =>
    /\ exc = NoExc
    /\ self.model.weights = package.state_dict
    /\ IF ~args.evaluate
       THEN /\ self.optimizer.state = (IF Has("optim_dict") THEN package.optim_dict ELSE "fresh")
            /\ self.starting_epoch = (IF Has("epoch") THEN package.epoch ELSE 1)
            /\ self.best_val_acc = (IF Has("best_val_acc") THEN package.best_val_acc ELSE 0)
            /\ (args.scheduler = "STEP" /\ Has("epoch")) =>
                 self.scheduler.last_epoch = package.epoch - 1
       ELSE /\ self.optimizer.state = "fresh"
            /\ self.starting_epoch = 1
            /\ self.best_val_acc = 0
    /\ self.output_dir_path = SubSeq(args.resume, 1, Len(args.resume) - 2)
    /\ dirs = {}

\* C6: 'CIFAR10' gives num_classes 10 and in_channels 3, 'CIFAR100' 100 and
\* 3, 'MNIST' 10 and 1; any other dataset raises 'Dataset not supported:
\* <name>' before a model, data loader, optimizer or scheduler is built.
C6_DatasetSelection ==
  pc \in AfterInit =>
    /\ args.dataset = "CIFAR10" => self.num_classes = 10 /\ self.in_channels = 3
    /\ args.dataset = "CIFAR100" => self.num_classes = 100 /\ self.in_channels = 3
    /\ args.dataset = "MNIST" => self.num_classes = 10 /\ self.in_channels = 1
    /\ args.dataset \notin {"CIFAR10", "CIFAR100", "MNIST"} =>
         /\ pc = "raised"
         /\ exc = [type |-> "Exception", msg |-> <<"Dataset not supported: ", args.dataset>>]
         /\ Range(built) \cap {"model", "loaders", "optimizer", "scheduler"} = {}
         /\ self.model.origin = "unset" /\ self.optimizer.state = "unset"
         /\ self.scheduler.kind = "unset"

\* construction with a dataset that is not supported
C6_Witness ==
  pc = "raised" /\ args.dataset = "SVHN" /\ exc.type = "Exception"

\* the steps of the epochs from..to-1, n batches each
RECURSIVE Batches(_, _)
Batches(n, ep) == IF n = 0 THEN <<>> ELSE <<Event("batch", ep)>> \o Batches(n - 1, ep)
RECURSIVE ExpectedLog(_, _, _)
ExpectedLog(from, to, n) ==
  IF from >= to THEN <<>>
  ELSE Batches(n, from)
         \o <<Event("lr", from), Event("eval", from), Event("checkpoint", from)>>
         \o ExpectedLog(from + 1, to, n)

C7_Order ==
  pc \in Training =>
    LET expected == ExpectedLog(self.starting_epoch, args.epochs, nbatches)
    IN /\ IsPrefix(log, expected)
       /\ pc = "done" =>
            /\ log = expected
            /\ ~args.dry_run => retval = Append(Append(self.output_dir_path, <<"checkpoints">>), <<"best.tar">>)
       /\ self.starting_epoch >= args.epochs => log = <<>> /\ evals = <<>> /\ writes = <<>>

\* C7: train_model terminates and trains exactly the epochs starting_epoch ..
\* epochs-1 in increasing order, each one pass over the batches, then the
\* learning-rate update, then one evaluation, then the checkpoint step; when
\* starting_epoch >= epochs it does none of these; with dry_run false it
\* returns <checkpoints dir>/best.tar.
C7_TrainModelTerminates ==
  /\ []C7_Order
  /\ (pc = "for") ~> (pc = "done")

\* a finished run of at least two epochs with dry_run false
C7_Witness ==
  /\ pc = "done" /\ ~args.dry_run
  /\ self.starting_epoch + 2 <= args.epochs
  /\ Len(log) >= 2 * (nbatches + 3)

\* C8: when the pretrained configuration does not match the request,
\* construction does not fail: a fresh model is created for the upper-cased
\* part of args.network before the first underscore, with the requested
\* num_classes and bit widths and in_bit_width 8 for CNV and 1 otherwise;
\* only an unsupported architecture raises 'Model not supported: <arch>'.
C8_FreshModel ==
  (pc \in AfterInit /\ DatasetSupported /\ ~ConfigMatches) =>
    LET arch == Upper(args.network[1])
    IN IF arch \in SupportedArchs
       THEN self.model = [origin |-> "fresh", arch |-> arch,
                          num_classes |-> self.num_classes,
                          weight_bit_width |-> args.weight_bit_width,
                          act_bit_width |-> args.act_bit_width,
                          in_bit_width |-> IF arch = "CNV" THEN 8 ELSE 1,
                          weights |-> self.model.weights]
       ELSE exc = [type |-> "Exception", msg |-> <<"Model not supported: ", arch>>]

C9_BestIsMax ==
  (~args.dry_run /\ pc \in Training) =>
    LET done == IF pc = "checkpoint" THEN SubSeq(evals, 1, Len(evals) - 1) ELSE evals
        isBest(k) == Saves[k].path[Len(Saves[k].path)] = <<"best.tar">>
    IN /\ self.best_val_acc = Max({best0} \cup Range(done))
       /\ \A k \in 1..Len(Saves) :
            IF isBest(k)
            THEN \A j \in 1..(k - 1) : Saves[j].best_val_acc <= Saves[k].best_val_acc
            ELSE Saves[k].best_val_acc = (IF k = 1 THEN best0 ELSE Saves[k - 1].best_val_acc)

\* C9: with dry_run false best_val_acc never decreases during train_model and
\* after every epoch is the maximum of its starting value and the top-1
\* averages evaluated so far; a 'best.tar' stores at least what every earlier
\* checkpoint stores, and a 'checkpoint.tar' stores what the last 'best.tar'
\* before it stores (the starting value when there is none).
C9_BestNeverDecreases ==
  /\ []C9_BestIsMax
  /\ [][(~args.dry_run /\ pc \in Training) => self'.best_val_acc >= self.best_val_acc]_vars

\* a run whose second epoch is worse than its first
C9_Witness ==
  /\ ~args.dry_run /\ pc = "done"
  /\ Len(evals) >= 2 /\ evals[2] < evals[1] /\ evals[1] > best0

====
